---- MODULE Spec2Model ----
(***************************************************************************)
(* URL shortener: the record store (crud.py), the key generator            *)
(* (keygen.py) and the request handlers (main.py).                         *)
(*                                                                         *)
(* Strings are sequences of tokens (a token is a TLA+ string, usually one  *)
(* character), so that length, concatenation, prefix and suffix are        *)
(* computed.  The table `urls` is the sequence `store`; a row's id is its  *)
(* position.                                                               *)
(***************************************************************************)
EXTENDS Integers, Sequences, FiniteSets, TLC

VARIABLES
    store,      \* the rows of table urls, in insertion order
    last,       \* the last request handled to completion and its response
    redirects,  \* history: per row id, the redirects answered successfully
    pc,         \* per worker: where its request stands (interleaved runs)
    local,      \* per worker: the request's local variables
    resp,       \* per worker: the response of its last completed request
    raced       \* history: two creates of one key both passed the key check

vars == <<store, last, redirects, pc, local, resp, raced>>

---------------------------------------------------------------------------
(* Bounds *)

MaxRecords == 2     \* rows the table may hold (the unique indexes keep it
                    \* within the number of keys; binds when they do not)
MaxClicks == 2      \* redirects counted per row
MaxDraws == 2       \* draws create_unique_random_key may make in one call

(* Program constants *)

KeyLength == 5          \* create_random_key(length = 5)
SecretLength == 8       \* create_random_key(length=8) in create_db_url

\* config.py: Settings.base_url, one token
base_url == <<"http://localhost:8000">>

\* The outcomes of secrets.choice over `length` positions: each draw is the
\* sequence of symbols chosen, read from the left.
Draws ==
    { <<"A", "A", "A", "A", "A", "A", "A", "A">>,
      <<"B", "7", "B", "7", "B", "7", "B", "7">> }

\* Keys a client may ask for; <<>> stands for an absent key (None or "").
UserKeys == { <<>>, <<"A", "A", "A", "A", "A">> }

\* Target URLs a client may post.
Targets == { "https://example.com", "https://example.org", "not a url" }

\* validators.url(target_url)
ValidURL(t) == t \in { "https://example.com", "https://example.org" }

\* How requests.get(target_url) ends: it returns, raises ConnectionError, or
\* raises another exception.
Probes == { "ok", "ConnectionError", "OtherError" }

Procs == { 1, 2 }

---------------------------------------------------------------------------
(* Strings *)

StartsWith(s, p) == Len(p) <= Len(s) /\ SubSeq(s, 1, Len(p)) = p

EndsWith(s, p) == Len(p) <= Len(s) /\ SubSeq(s, Len(s) - Len(p) + 1, Len(s)) = p

---------------------------------------------------------------------------
(* models.py / schemas.py: the row, its defaults, the table's constraints *)

None == [id |-> 0, target_url |-> "", key |-> <<>>, secret_key |-> <<>>,
         clicks |-> 0, is_active |-> FALSE]

\* models.URL(target_url=, key=, secret_key=): clicks defaults to 0 and
\* is_active to true; the id is assigned at insertion.
URLRow(id, target_url, key, secret_key) ==
    [id |-> id, target_url |-> target_url, key |-> key,
     secret_key |-> secret_key, clicks |-> 0, is_active |-> TRUE]

\* Variant: the column key carries no unique index.
IntegrityErrorSecretOnly(s, key, secret_key) ==
    \E i \in 1..Len(s) : s[i].secret_key = secret_key

\* The table's unique indexes on key and on secret_key reject the insert.
IntegrityError(s, key, secret_key) ==
    \E i \in 1..Len(s) : s[i].key = key \/ s[i].secret_key = secret_key

\* schemas.URLInfo: the fields of a response built from a row.
URLInfo(db_url, url, admin_url) ==
    [url |-> url, admin_url |-> admin_url, target_url |-> db_url.target_url,
     key |-> db_url.key, secret_key |-> db_url.secret_key,
     clicks |-> db_url.clicks, is_active |-> db_url.is_active]

NoBody == URLInfo(None, <<>>, <<>>)

---------------------------------------------------------------------------
(* keygen.py *)

\* ''.join(choice(...) for _ in range(length)): the first `length` choices.
create_random_key(length, draw) == SubSeq(draw, 1, length)

---------------------------------------------------------------------------
(* crud.py: lookups *)

\* Variant: the filter on is_active is left out.
get_db_url_by_key_any(s, url_key) ==
    LET m == { i \in 1..Len(s) : s[i].key = url_key }
    IN  IF m = {} THEN None ELSE s[CHOOSE i \in m : \A j \in m : i <= j]

\* db.query(URL).filter(URL.key == url_key, URL.is_active).first()
get_db_url_by_key(s, url_key) ==
    LET m == { i \in 1..Len(s) : s[i].key = url_key /\ s[i].is_active }
    IN  IF m = {} THEN None ELSE s[CHOOSE i \in m : \A j \in m : i <= j]

\* db.query(URL).filter(URL.secret_key == secret_key, URL.is_active).first()
get_db_url_by_secret_key(s, secret_key) ==
    LET m == { i \in 1..Len(s) : s[i].secret_key = secret_key /\ s[i].is_active }
    IN  IF m = {} THEN None ELSE s[CHOOSE i \in m : \A j \in m : i <= j]

---------------------------------------------------------------------------
(* keygen.py: the retry loop *)

\* key = create_random_key(); while get_db_url_by_key(db, key): draw again.
\* draws[n] is the n-th draw of the call; <<>> is returned when the call is
\* still looping after its last draw (it has not returned).
RECURSIVE unique_key_from(_, _, _)
unique_key_from(s, draws, n) ==
    LET key == create_random_key(KeyLength, draws[n])
    IN  IF get_db_url_by_key(s, key) = None THEN key
        ELSE IF n < Len(draws) THEN unique_key_from(s, draws, n + 1)
        ELSE <<>>

\* Variant: the first draw is returned without the loop.
create_unique_random_key_once(s, draws) == create_random_key(KeyLength, draws[1])

create_unique_random_key(s, draws) == unique_key_from(s, draws, 1)

---------------------------------------------------------------------------
(* crud.py: writes *)

\* secret_key = f'{key}_{create_random_key(length=8)}'
SecretKey(key, suffix) == key \o <<"_">> \o create_random_key(SecretLength, suffix)

\* Variant: key and secret_key are passed to the row in each other's place.
create_db_url_swapped(s, target_url, key, draws, suffix) ==
    LET genkey == IF key = <<>> THEN create_unique_random_key(s, draws) ELSE <<>>
        k      == IF key = <<>> THEN genkey ELSE key
        sk     == SecretKey(k, suffix)
        db_url == URLRow(Len(s) + 1, target_url, sk, k)
    IN  IF k = <<>>
        THEN [hangs |-> TRUE, raised |-> FALSE, store |-> s, db_url |-> None,
              genkey |-> <<>>]
        ELSE IF IntegrityError(s, sk, k)
        THEN [hangs |-> FALSE, raised |-> TRUE, store |-> s, db_url |-> None,
              genkey |-> genkey]
        ELSE [hangs |-> FALSE, raised |-> FALSE, store |-> Append(s, db_url),
              db_url |-> db_url, genkey |-> genkey]

\* Variant: the error the commit raises is caught and the row returned.
create_db_url_swallow(s, target_url, key, draws, suffix) ==
    LET genkey == IF key = <<>> THEN create_unique_random_key(s, draws) ELSE <<>>
        k      == IF key = <<>> THEN genkey ELSE key
        sk     == SecretKey(k, suffix)
        db_url == URLRow(Len(s) + 1, target_url, k, sk)
    IN  IF k = <<>>
        THEN [hangs |-> TRUE, raised |-> FALSE, store |-> s, db_url |-> None,
              genkey |-> <<>>]
        ELSE IF IntegrityError(s, k, sk)
        THEN [hangs |-> FALSE, raised |-> FALSE, store |-> s, db_url |-> db_url,
              genkey |-> genkey]
        ELSE [hangs |-> FALSE, raised |-> FALSE, store |-> Append(s, db_url),
              db_url |-> db_url, genkey |-> genkey]

\* db.add(db_url); db.commit(); db.refresh(db_url): the row is appended with
\* the next id, or the commit raises and nothing is written.
\* hangs: the key generator has not returned.
create_db_url(s, target_url, key, draws, suffix) ==
    LET genkey == IF key = <<>> THEN create_unique_random_key(s, draws) ELSE <<>>
        k      == IF key = <<>> THEN genkey ELSE key
        sk     == SecretKey(k, suffix)
        db_url == URLRow(Len(s) + 1, target_url, k, sk)
    IN  IF k = <<>>
        THEN [hangs |-> TRUE, raised |-> FALSE, store |-> s, db_url |-> None,
              genkey |-> <<>>]
        ELSE IF IntegrityError(s, k, sk)
        THEN [hangs |-> FALSE, raised |-> TRUE, store |-> s, db_url |-> None,
              genkey |-> genkey]
        ELSE [hangs |-> FALSE, raised |-> FALSE, store |-> Append(s, db_url),
              db_url |-> db_url, genkey |-> genkey]

\* Variant: clicks is assigned 1 instead of incremented.
update_db_clicks_assign(s, db_url) ==
    [s EXCEPT ![db_url.id].clicks = 1]

\* db_url.clicks += 1; db.commit(): the value the caller's object holds, plus
\* one, is written to the row.
update_db_clicks(s, db_url) ==
    [s EXCEPT ![db_url.id].clicks = db_url.clicks + 1]

\* Variant: the flag is not written.
set_inactive_noop(s, db_url) == s

\* db_url.is_active = False; db.commit()
set_inactive(s, db_url) ==
    [s EXCEPT ![db_url.id].is_active = FALSE]

deactivate_db_url_by_secret_key(s, secret_key) ==
    LET db_url == get_db_url_by_secret_key(s, secret_key)
    IN  IF db_url # None
        THEN LET t == set_inactive(s, db_url)
             IN  [store |-> t, db_url |-> t[db_url.id]]
        ELSE [store |-> s, db_url |-> None]

---------------------------------------------------------------------------
(* main.py: responses *)

Response(op, arg, target, status, body, detail, genkey) ==
    [op |-> op, arg |-> arg, target |-> target, status |-> status,
     body |-> body, detail |-> detail, genkey |-> genkey]

NoResponse == Response("none", <<>>, "", 0, NoBody, <<>>, <<>>)

\* raise_bad_request(message)
raise_bad_request(op, arg, target, message) ==
    Response(op, arg, target, 400, NoBody, <<message>>, <<>>)

\* raise_not_found(url)
raise_not_found(op, arg, target, url) ==
    Response(op, arg, target, 404, NoBody,
             <<"URL '">> \o url \o <<"' doesn't exist">>, <<>>)

\* an exception no handler catches
ServerError(op, arg, target, genkey) ==
    Response(op, arg, target, 500, NoBody, <<"Internal Server Error">>, genkey)

\* get_admin_info: url and admin_url are the base URL with its path replaced.
get_admin_info(db_url) ==
    URLInfo(db_url,
            base_url \o <<"/">> \o db_url.key,
            base_url \o <<"/", "admin", "/">> \o db_url.secret_key)

---------------------------------------------------------------------------
(* main.py: the handlers, each run to completion *)

\* Variant: the check of the explicit key is left out.
create_url_checks_no_key(s, target, key, probe) ==
    IF ~ValidURL(target)
    THEN raise_bad_request("create", key, target, "Your provided URL is not valid")
    ELSE IF probe = "ConnectionError"
    THEN raise_not_found("create", key, target, <<target>>)
    ELSE IF probe # "ok"
    THEN ServerError("create", key, target, <<>>)
    ELSE NoResponse

\* POST /url, up to the call of create_db_url: the response of the check
\* that fails, or NoResponse when all pass.
create_url_checks(s, target, key, probe) ==
    IF ~ValidURL(target)
    THEN raise_bad_request("create", key, target, "Your provided URL is not valid")
    ELSE IF key # <<>> /\ get_db_url_by_key(s, key) # None
    THEN raise_bad_request("create", key, target,
                           "Key already exists in the database.")
    ELSE IF probe = "ConnectionError"
    THEN raise_not_found("create", key, target, <<target>>)
    ELSE IF probe # "ok"
    THEN ServerError("create", key, target, <<>>)
    ELSE NoResponse

\* POST /url, from the call of create_db_url on: c is what it returned.
create_url_response(c, target, key) ==
    IF c.raised
    THEN ServerError("create", key, target, c.genkey)
    ELSE Response("create", key, target, 200,
                  URLInfo(c.db_url, c.db_url.key, c.db_url.secret_key),
                  <<>>, c.genkey)

\* POST /url
create_url(s, target, key, probe, draws, suffix) ==
    LET v == create_url_checks(s, target, key, probe)
        c == create_db_url(s, target, key, draws, suffix)
    IN  IF v # NoResponse
        THEN [hangs |-> FALSE, store |-> s, resp |-> v]
        ELSE IF c.hangs
        THEN [hangs |-> TRUE, store |-> s, resp |-> NoResponse]
        ELSE [hangs |-> FALSE, store |-> c.store,
              resp |-> create_url_response(c, target, key)]

\* GET /{key}
forward_to_target_url(s, key) ==
    LET db_url == get_db_url_by_key(s, key)
    IN  IF db_url # None
        THEN [store |-> update_db_clicks(s, db_url), id |-> db_url.id,
              resp |-> Response("redirect", key, db_url.target_url, 307,
                                NoBody, <<>>, <<>>)]
        ELSE [store |-> s, id |-> 0,
              resp |-> raise_not_found("redirect", key, "",
                                       base_url \o <<"/">> \o key)]

\* GET /peek/{key}
peek_target_url(s, key) ==
    LET db_url == get_db_url_by_key(s, key)
    IN  IF db_url # None
        THEN [store |-> s,
              resp |-> Response("peek", key, db_url.target_url, 200,
                                NoBody, <<>>, <<>>)]
        ELSE [store |-> s,
              resp |-> raise_not_found("peek", key, "",
                                       base_url \o <<"/">> \o key)]

\* GET /admin/{secret_key}
get_url_info(s, secret_key) ==
    LET db_url == get_db_url_by_secret_key(s, secret_key)
    IN  IF db_url # None
        THEN [store |-> s,
              resp |-> Response("info", secret_key, db_url.target_url, 200,
                                get_admin_info(db_url), <<>>, <<>>)]
        ELSE [store |-> s,
              resp |-> raise_not_found("info", secret_key, "", <<>>)]

\* DELETE /admin/{secret_key}
delete_url(s, secret_key) ==
    LET d == deactivate_db_url_by_secret_key(s, secret_key)
    IN  IF d.db_url # None
        THEN [store |-> d.store,
              resp |-> Response("delete", secret_key, d.db_url.target_url, 200,
                                NoBody,
                                <<"Successfully deleted shortened URL for ",
                                  d.db_url.target_url>>, <<>>)]
        ELSE [store |-> s,
              resp |-> raise_not_found("delete", secret_key, "", <<>>)]

---------------------------------------------------------------------------
(* Requests *)

GeneratedKeys == { create_random_key(KeyLength, d) : d \in Draws }

\* Keys a client may put in a path (a path segment is never empty).
PathKeys == (UserKeys \ {<<>>}) \cup GeneratedKeys

PathSecretKeys == { SecretKey(k, d) : k \in PathKeys, d \in Draws }

DrawSeqs == [1..MaxDraws -> Draws]

NoLocal == [key |-> <<>>, arg |-> <<>>, target |-> "", db_url |-> None,
            genkey |-> <<>>]

Init ==
    /\ store = <<>>
    /\ last = NoResponse
    /\ redirects = [i \in 1..MaxRecords |-> 0]
    /\ pc = [p \in Procs |-> "idle"]
    /\ local = [p \in Procs |-> NoLocal]
    /\ resp = [p \in Procs |-> NoResponse]
    /\ raced = FALSE

\* Inputs the handler does not read on its path are not enumerated.
Create ==
    \E target \in Targets, key \in UserKeys :
    \E probe \in (IF ValidURL(target) THEN Probes ELSE {"ok"}) :
    \E draws \in (IF key = <<>> /\ probe = "ok" THEN DrawSeqs ELSE {<<>>}),
       suffix \in (IF ValidURL(target) /\ probe = "ok" THEN Draws
                   ELSE {CHOOSE d \in Draws : TRUE}) :
        LET r == create_url(store, target, key, probe, draws, suffix)
        IN  /\ ~r.hangs
            /\ Len(r.store) <= MaxRecords
            /\ store' = r.store
            /\ last' = r.resp
            /\ UNCHANGED <<redirects, pc, local, resp, raced>>

Redirect ==
    \E key \in PathKeys :
        LET r == forward_to_target_url(store, key)
        IN  /\ r.id # 0 => store[r.id].clicks < MaxClicks
            /\ store' = r.store
            /\ last' = r.resp
            /\ redirects' = IF r.id # 0
                            THEN [redirects EXCEPT ![r.id] = @ + 1]
                            ELSE redirects
            /\ UNCHANGED <<pc, local, resp, raced>>

Peek ==
    \E key \in PathKeys :
        LET r == peek_target_url(store, key)
        IN  /\ store' = r.store
            /\ last' = r.resp
            /\ UNCHANGED <<redirects, pc, local, resp, raced>>

Info ==
    \E secret_key \in PathSecretKeys :
        LET r == get_url_info(store, secret_key)
        IN  /\ store' = r.store
            /\ last' = r.resp
            /\ UNCHANGED <<redirects, pc, local, resp, raced>>

Delete ==
    \E secret_key \in PathSecretKeys :
        LET r == delete_url(store, secret_key)
        IN  /\ store' = r.store
            /\ last' = r.resp
            /\ UNCHANGED <<redirects, pc, local, resp, raced>>

Next == Create \/ Redirect \/ Peek \/ Info \/ Delete

Spec == Init /\ [][Next]_vars

---------------------------------------------------------------------------
(* Interleaved execution: two workers, one request each, every statement    *)
(* sent to the database a step of its own.  A worker's session reads the    *)
(* committed table and keeps the row objects it loaded.                     *)

KeyA == create_random_key(KeyLength, CHOOSE d \in Draws : d[1] = "A")

\* Tables the sequential handlers leave: empty, one active row, one
\* deactivated row.
OneActive ==
    create_db_url(<<>>, "https://example.com", KeyA, <<>>,
                  CHOOSE d \in Draws : d[1] = "A").store

OneInactive ==
    deactivate_db_url_by_secret_key(OneActive, OneActive[1].secret_key).store

InitStores == { <<>>, OneActive, OneInactive }

InitConc ==
    /\ store \in InitStores
    /\ last = NoResponse
    /\ redirects = [i \in 1..MaxRecords |-> 0]
    /\ pc = [p \in Procs |-> "idle"]
    /\ local = [p \in Procs |-> NoLocal]
    /\ resp = [p \in Procs |-> NoResponse]
    /\ raced = FALSE

Finish(p, r) ==
    /\ resp' = [resp EXCEPT ![p] = r]
    /\ pc' = [pc EXCEPT ![p] = "done"]

\* create_url down to the row built in create_db_url (main.py 132-141,
\* crud.py 26-33): the checks and the key are settled on the table as read.
CreateCheck(p) ==
    /\ pc[p] = "idle"
    /\ \E target \in Targets, key \in UserKeys :
       \E probe \in (IF ValidURL(target) THEN Probes ELSE {"ok"}) :
       \E draws \in (IF key = <<>> /\ probe = "ok" THEN DrawSeqs ELSE {<<>>}) :
        LET v == create_url_checks(store, target, key, probe)
            genkey == IF key = <<>> THEN create_unique_random_key(store, draws)
                      ELSE <<>>
            k == IF key = <<>> THEN genkey ELSE key
        IN  IF v # NoResponse
            THEN /\ Finish(p, v)
                 /\ UNCHANGED <<store, last, redirects, local, raced>>
            ELSE /\ k # <<>>
                 /\ pc' = [pc EXCEPT ![p] = "create_insert"]
                 /\ local' = [local EXCEPT ![p] =
                        [key |-> k, arg |-> key, target |-> target,
                         db_url |-> None, genkey |-> genkey]]
                 /\ raced' = (raced \/ \E q \in Procs \ {p} :
                                 pc[q] = "create_insert" /\ local[q].key = k)
                 /\ UNCHANGED <<store, last, redirects, resp>>

\* db.add(db_url); db.commit() and the response (crud.py 35-38, main.py
\* 143-146).
CreateInsert(p) ==
    /\ pc[p] = "create_insert"
    /\ \E suffix \in Draws :
        LET c == create_db_url(store, local[p].target, local[p].key, <<>>, suffix)
            r == create_url_response(
                     [c EXCEPT !.genkey = local[p].genkey],
                     local[p].target, local[p].arg)
        IN  /\ Len(c.store) <= MaxRecords
            /\ store' = c.store
            /\ Finish(p, r)
            /\ UNCHANGED <<last, redirects, local, raced>>

\* forward_to_target_url: the query (main.py 166)
RedirectRead(p) ==
    /\ pc[p] = "idle"
    /\ \E key \in PathKeys :
        LET db_url == get_db_url_by_key(store, key)
        IN  IF db_url = None
            THEN /\ Finish(p, forward_to_target_url(store, key).resp)
                 /\ UNCHANGED <<store, last, redirects, local, raced>>
            ELSE /\ db_url.clicks < MaxClicks
                 /\ pc' = [pc EXCEPT ![p] = "redirect_write"]
                 /\ local' = [local EXCEPT ![p] =
                        [key |-> key, arg |-> key, target |-> db_url.target_url,
                         db_url |-> db_url, genkey |-> <<>>]]
                 /\ UNCHANGED <<store, last, redirects, resp, raced>>

\* forward_to_target_url: update_db_clicks on the row object loaded by the
\* query, and the redirect (main.py 167-168)
RedirectWrite(p) ==
    /\ pc[p] = "redirect_write"
    /\ store' = update_db_clicks(store, local[p].db_url)
    /\ redirects' = [redirects EXCEPT ![local[p].db_url.id] = @ + 1]
    /\ Finish(p, Response("redirect", local[p].arg, local[p].db_url.target_url,
                          307, NoBody, <<>>, <<>>))
    /\ UNCHANGED <<last, local, raced>>

\* deactivate_db_url_by_secret_key: the query (crud.py 108)
DeleteRead(p) ==
    /\ pc[p] = "idle"
    /\ \E secret_key \in PathSecretKeys :
        LET db_url == get_db_url_by_secret_key(store, secret_key)
        IN  IF db_url = None
            THEN /\ Finish(p, delete_url(store, secret_key).resp)
                 /\ UNCHANGED <<store, last, redirects, local, raced>>
            ELSE /\ pc' = [pc EXCEPT ![p] = "delete_write"]
                 /\ local' = [local EXCEPT ![p] =
                        [key |-> db_url.key, arg |-> secret_key,
                         target |-> db_url.target_url,
                         db_url |-> db_url, genkey |-> <<>>]]
                 /\ UNCHANGED <<store, last, redirects, resp, raced>>

\* deactivate_db_url_by_secret_key: the update, and delete_url's response
\* (crud.py 110-115, main.py 247-248)
DeleteWrite(p) ==
    /\ pc[p] = "delete_write"
    /\ store' = set_inactive(store, local[p].db_url)
    /\ Finish(p, Response("delete", local[p].arg, local[p].target, 200, NoBody,
                          <<"Successfully deleted shortened URL for ",
                            local[p].target>>, <<>>))
    /\ UNCHANGED <<last, redirects, local, raced>>

\* peek_target_url and get_url_info: one query each
PeekRead(p) ==
    /\ pc[p] = "idle"
    /\ \E key \in PathKeys : Finish(p, peek_target_url(store, key).resp)
    /\ UNCHANGED <<store, last, redirects, local, raced>>

InfoRead(p) ==
    /\ pc[p] = "idle"
    /\ \E secret_key \in PathSecretKeys :
           Finish(p, get_url_info(store, secret_key).resp)
    /\ UNCHANGED <<store, last, redirects, local, raced>>

NextConc ==
    \E p \in Procs :
        \/ CreateCheck(p) \/ CreateInsert(p)
        \/ RedirectRead(p) \/ RedirectWrite(p)
        \/ DeleteRead(p) \/ DeleteWrite(p)
        \/ PeekRead(p) \/ InfoRead(p)

SpecConc == InitConc /\ [][NextConc]_vars

AllDone == \A p \in Procs : pc[p] = "done"

---------------------------------------------------------------------------
(* Properties of sequential execution *)

Rows == 1..Len(store)

\* C1: no two rows of the table have the same key, inactive rows included.
KeyUnique ==
    \A i, j \in Rows : i # j => store[i].key # store[j].key

\* C1 witness: a create asked for the key of a deactivated row and was
\* refused by the table, which holds two rows.
KeyUniqueWitness ==
    /\ Len(store) = 2
    /\ last.op = "create" /\ last.status = 500
    /\ \E i \in Rows : ~store[i].is_active /\ store[i].key = last.arg

\* C2: lookups return active rows only, and a deactivated row stays
\* deactivated, so that neither lookup returns it in any later state.
DeactivatedStaysHidden ==
    /\ [](\A k \in PathKeys : get_db_url_by_key(store, k) # None
              => get_db_url_by_key(store, k).is_active)
    /\ [](\A sk \in PathSecretKeys : get_db_url_by_secret_key(store, sk) # None
              => get_db_url_by_secret_key(store, sk).is_active)
    /\ [][\A i \in Rows : ~store[i].is_active =>
              /\ i <= Len(store') /\ ~store'[i].is_active
              /\ get_db_url_by_key(store', store[i].key).id # i
              /\ get_db_url_by_secret_key(store', store[i].secret_key).id # i
         ]_vars

\* C2 witness: a redirect for the key of a deactivated row was answered 404.
DeactivatedStaysHiddenWitness ==
    /\ last.op = "redirect" /\ last.status = 404
    /\ \E i \in Rows : ~store[i].is_active /\ store[i].key = last.arg

\* C3: a Delete with the secret key of an active row answers 200 with the
\* confirmation and leaves the row inactive; a Delete with the same secret key
\* right after it answers 404 and leaves the table as it was.
DeleteTwice ==
    [][ /\ \A i \in Rows :
            (last'.op = "delete" /\ store[i].is_active
               /\ store[i].secret_key = last'.arg) =>
                /\ last'.status = 200
                /\ last'.detail = <<"Successfully deleted shortened URL for ",
                                    store[i].target_url>>
                /\ ~store'[i].is_active
                /\ store' = [store EXCEPT ![i].is_active = FALSE]
        /\ (last.op = "delete" /\ last.status = 200
              /\ last'.op = "delete" /\ last'.arg = last.arg) =>
            /\ last'.status = 404
            /\ store' = store
      ]_vars

\* C3 witness: the second Delete was answered 404.
DeleteTwiceWitness ==
    /\ last.op = "delete" /\ last.status = 404
    /\ \E i \in Rows : ~store[i].is_active /\ store[i].secret_key = last.arg

\* C4: right after a create answered 200 with key k, the lookup of k returns
\* a row with key k, the posted target_url and clicks 0; k is the explicit key
\* when one was given.
CreateThenFind ==
    (last.op = "create" /\ last.status = 200) =>
        LET k == last.body.key
            r == get_db_url_by_key(store, k)
        IN  /\ k # <<>>
            /\ last.arg # <<>> => k = last.arg
            /\ last.arg = <<>> => k = last.genkey
            /\ r # None
            /\ r.key = k
            /\ r.target_url = last.target
            /\ r.clicks = 0

\* C4 witness: a create succeeded in a table holding a deactivated row.
CreateThenFindWitness ==
    /\ last.op = "create" /\ last.status = 200
    /\ \E i \in Rows : ~store[i].is_active

\* C5: a row's clicks is the number of redirects answered for it; a step
\* changes clicks only by a successful redirect of that row's key, by one.
ClicksCountRedirects ==
    /\ [](\A i \in Rows : store[i].clicks = redirects[i])
    /\ [][\A i \in Rows :
            \/ store'[i].clicks = store[i].clicks
            \/ /\ last'.op = "redirect" /\ last'.status = 307
               /\ last'.arg = store[i].key
               /\ store'[i].clicks = store[i].clicks + 1
         ]_vars

\* C5 witness: a row was redirected to twice, and a peek followed.
ClicksCountRedirectsWitness ==
    /\ last.op = "peek" /\ last.status = 200
    /\ \E i \in Rows : store[i].key = last.arg /\ store[i].clicks = 2

\* C6: a create with an explicit key that an active row holds answers 400
\* and leaves the table as it was.
ExplicitKeyTaken ==
    [][(last'.op = "create" /\ last'.arg # <<>>
          /\ get_db_url_by_key(store, last'.arg) # None) =>
            /\ last'.status = 400
            /\ store' = store
      ]_vars

\* C6 witness: a create with a valid URL and a taken key was answered 400.
ExplicitKeyTakenWitness ==
    /\ last.op = "create" /\ last.status = 400
    /\ ValidURL(last.target)
    /\ last.arg # <<>> /\ get_db_url_by_key(store, last.arg) # None

\* C7: a create without an explicit key answered 200 carries a key of 5
\* characters, a url made of the base URL that ends in /<key>, and a
\* secret_key <key>_<8 characters>.
CreateResponseShape ==
    (last.op = "create" /\ last.status = 200 /\ last.arg = <<>>) =>
        /\ Len(last.body.key) = 5
        /\ StartsWith(last.body.url, base_url)
        /\ EndsWith(last.body.url, <<"/">> \o last.body.key)
        /\ StartsWith(last.body.secret_key, last.body.key \o <<"_">>)
        /\ Len(last.body.secret_key) = Len(last.body.key) + 1 + 8

\* The part of that shape the handler does deliver: the key and the secret key.
CreateResponseKeys ==
    (last.op = "create" /\ last.status = 200 /\ last.arg = <<>>) =>
        /\ Len(last.body.key) = KeyLength
        /\ last.body.url = last.body.key
        /\ last.body.secret_key \in
               { last.body.key \o <<"_">> \o SubSeq(d, 1, SecretLength) : d \in Draws }

\* C8: the key create_unique_random_key returns is the key of no row that is
\* active in the table it was called on.
GeneratedKeyNotActive ==
    [][(last'.op = "create" /\ last'.genkey # <<>>) =>
            get_db_url_by_key(store, last'.genkey) = None
      ]_vars

\* C8 witness: the generator returned while another key was active.
GeneratedKeyNotActiveWitness ==
    /\ last.op = "create" /\ last.genkey # <<>>
    /\ \E i \in Rows : store[i].is_active /\ store[i].key # last.genkey
    /\ \E i \in Rows : store[i].key = last.genkey

---------------------------------------------------------------------------
(* Properties of interleaved execution *)

\* C9: when the redirects have completed, each row's clicks has grown by the
\* number of redirects answered for it (clicks starts at 0).
NoLostClick ==
    AllDone => \A i \in Rows : store[i].clicks = redirects[i]

\* C10: two creates of one key that both passed the checks before either
\* inserted leave at most one row with that key; each ends 200 or 500, at
\* least one ends 500, and one that ends 200 has its row in the table.
NoSilentDuplicate ==
    /\ \A i, j \in Rows : (i # j) => (store[i].key # store[j].key)
    /\ (raced /\ AllDone) =>
        LET k == local[1].key
        IN  /\ \A p \in Procs : local[p].key = k /\ resp[p].op = "create"
            /\ \A p \in Procs : resp[p].status \in {200, 500}
            /\ \E p \in Procs : resp[p].status = 500
            /\ Cardinality({ i \in Rows : store[i].key = k }) <= 1
            /\ \A p \in Procs : resp[p].status = 200 =>
                   \E i \in Rows : /\ store[i].key = k
                                   /\ store[i].key = resp[p].body.key
                                   /\ store[i].secret_key = resp[p].body.secret_key

\* C10 witness: of two racing creates, one was answered 200, the other 500.
NoSilentDuplicateWitness ==
    /\ raced /\ AllDone
    /\ resp[1].status = 200 /\ resp[2].status = 500

====
